---- MODULE Spec2Model ----
(***************************************************************************)
(* A model of the snake.io engine: the GameCanvas component (world         *)
(* construction, the per-frame update, death processing, the respawn       *)
(* timers), the App shell that owns the session state, and the geometry    *)
(* helpers.                                                                *)
(*                                                                         *)
(* Numbers.  JavaScript numbers are modelled in fixed point:               *)
(*   - coordinates and radii in 1/Scale of a world unit,                   *)
(*   - angles in 1/100 radian (PI == 314),                                 *)
(*   - Snake.length (the target length) in tenths, so that the boost       *)
(*     shrink of 0.1 and the growth of value/10 are exact,                 *)
(*   - scores and food values as integers.                                 *)
(* Math.random() is a choice from a small set at every call site.          *)
(* Objects compared by identity in the code (Snake) carry a heap address   *)
(* in the field ref.                                                       *)
(***************************************************************************)
EXTENDS Integers, Sequences, FiniteSets, TLC

(***************************************************************************)
(* Bounds of the model.                                                    *)
(***************************************************************************)
\* bots created by initGame (25 in the code)
NumBots == 2
\* bots in the world of the leaderboard scenario (25 in the code)
BoardBots == 6
\* the headings of the steering scenario, in 1/100 radian: -MaxAngle to
\* MaxAngle
MaxAngle == 800
\* food created by initGame and the replenishing cap (500 in the code)
FoodCount == 1
\* ticks that change the world
MaxTicks == 3
\* world constructions (initGame runs)
MaxSessions == 2

(***************************************************************************)
(* Program constants (types.ts and the literals of GameCanvas.tsx).        *)
(***************************************************************************)
Scale == 100
PI == 314
WORLD_SIZE == 4000
INITIAL_LENGTH == 10
BASE_SPEED == 5
BOOST_SPEED == 10
TURN_SPEED == 12
LETHAL_RADIUS == 20
SELF_SKIP == 10
BORDER_MARGIN == 200
PLAYER_BOOST_MIN == 15
BOT_BOOST_MIN == 20
CARCASS_VALUE == 20
DROP_VALUE == 5
FOOD_VALUE == 10
LEADERS == 5
SNAKE_COLORS == <<"#ef4444", "#3b82f6", "#10b981", "#f59e0b",
                  "#8b5cf6", "#ec4899", "#06b6d4", "#84cc16">>
Viewport == [innerWidth |-> 800, innerHeight |-> 600]

Abs(n) == IF n < 0 THEN -n ELSE n
Min(a, b) == IF a < b THEN a ELSE b
Sign(n) == IF n > 0 THEN 1 ELSE IF n < 0 THEN -1 ELSE 0
\* the half side of the arena, in coordinate units
Half == (WORLD_SIZE \div 2) * Scale
\* Math.floor of a length held in tenths
FloorLen(len) == len \div 10
Pt(x, y) == [x |-> x, y |-> y]

(***************************************************************************)
(* Geometry helpers (utils/geometry).                                      *)
(***************************************************************************)
\* JavaScript %: the result has the sign of the dividend
JsRem(a, m) == IF a >= 0 THEN a % m ELSE -((-a) % m)

\* Math.sin for an angle in [0, PI], times Scale (Bhaskara's rational form,
\* exact at 0, PI/2 and PI)
SinHalfTurn(x) ==
    (16 * x * (PI - x) * Scale) \div (5 * PI * PI - 4 * x * (PI - x))

\* Math.sin(a) * Scale
Sin(a) ==
    LET m == a % (2 * PI)
    IN  IF m <= PI THEN SinHalfTurn(m) ELSE -SinHalfTurn(m - PI)

\* Math.cos(a) * Scale
Cos(a) == Sin(a + PI \div 2)

\* Math.atan of n/d for 0 <= n <= d, d > 0, in 1/100 radian
AtanFrac(n, d) == (n * (785 * d + 273 * (d - n))) \div (10 * d * d)

\* Math.atan2(y, x) in 1/100 radian, in (-PI, PI]
Atan2(y, x) ==
    LET ax == Abs(x)
        ay == Abs(y)
        base == IF ax = 0 /\ ay = 0 THEN 0
                ELSE IF ax >= ay THEN AtanFrac(ay, ax)
                ELSE PI \div 2 - AtanFrac(ax, ay)
    IN  IF x >= 0 THEN (IF y >= 0 THEN base ELSE -base)
        ELSE (IF y >= 0 THEN PI - base ELSE -(PI - base))

\* getDistance(p1, p2) < r, for r in coordinate units
DistLess(p1, p2, r) ==
    LET dx == Abs(p2.x - p1.x)
        dy == Abs(p2.y - p1.y)
    IN  dx < r /\ dy < r /\ dx * dx + dy * dy < r * r

getAngle(p1, p2) == Atan2(p2.y - p1.y, p2.x - p1.x)

movePoint(p, angle, distance) ==
    [x |-> p.x + Cos(angle) * distance, y |-> p.y + Sin(angle) * distance]

\* a difference without the correction of the values below -PI
AngleDiffRaw(from, to) == JsRem(to - from + PI, 2 * PI) - PI

getShortestAngleDiff(from, to) ==
    LET diff == JsRem(to - from + PI, 2 * PI) - PI
    IN  IF diff < -PI THEN diff + 2 * PI ELSE diff

checkCircleCollision(p1, r1, p2, r2) == DistLess(p1, p2, r1 + r2)

lerp(a, b, t10) == a + ((b - a) * t10) \div 10

(***************************************************************************)
(* State.                                                                  *)
(***************************************************************************)
VARIABLES
    \* App.tsx: React state of the shell
    gameState, finalScore, currentScore, leaderboard,
    \* GameCanvas.tsx: refs of the component
    requestRef, mouseRef, playerRef, botsRef, foodRef, particlesRef,
    cameraRef, scoreRef,
    \* the gameState the mounted effect last ran for, and the gameState
    \* captured by the gameLoop closure that the pending frame will run
    effectState, loopState,
    \* pending setTimeout callbacks of killSnake, in firing order
    timers,
    \* allocation counters: the next Snake object, the next Food id
    nextRef, nextFood,
    \* history: ticks and constructions so far, the first ref of the
    \* current session, the calls of onGameOver and of setScore in the
    \* current session, the kills and consumptions of the session, and
    \* the last run of a respawn callback and of a frame callback
    tick, session, sessionBase, gameOverCalls, scoreLog, kills, eats,
    lastFire, lastFrame

vars == <<gameState, finalScore, currentScore, leaderboard, requestRef,
          mouseRef, playerRef, botsRef, foodRef, particlesRef, cameraRef,
          scoreRef, effectState, loopState, timers, nextRef, nextFood,
          tick, session, sessionBase, gameOverCalls, scoreLog, kills, eats,
          lastFire, lastFrame>>

(***************************************************************************)
(* Constructors.                                                           *)
(***************************************************************************)
\* the body built by createSnake: INITIAL_LENGTH points, 5 units apart,
\* trailing to the left of the head
InitialBody(x, y) ==
    [i \in 1..INITIAL_LENGTH |-> Pt(x - (i - 1) * 5 * Scale, y)]

\* createSnake; ref is the new object's address, angle and skinIndex are
\* the two Math.random() draws
createSnake(ref, id, name, x, y, color, isBot, angle, skinIndex) ==
    [ref |-> ref, id |-> id, name |-> name, body |-> InitialBody(x, y),
     angle |-> angle, length |-> INITIAL_LENGTH * 10, color |-> color,
     isBoosting |-> FALSE, score |-> 0, isDead |-> FALSE, isBot |-> isBot,
     skinIndex |-> skinIndex]

\* createFood; id is the fresh id, rr the draw 4 + Math.random() * 2
createFood(id, x, y, value, rr) ==
    [id |-> id, x |-> x, y |-> y, value |-> value,
     radius |-> IF value > 20 THEN 8 * Scale ELSE rr]

BotId(i) == <<"bot", i - 1>>
BotName(i) == <<"Bot", i>>
BotColor(i) == SNAKE_COLORS[(i % Len(SNAKE_COLORS)) + 1]
PlayerId == <<"player", 1>>
PlayerName == <<"You", 0>>

(***************************************************************************)
(* Draws of Math.random(), one small set per call site.                    *)
(***************************************************************************)
\* createFood: 4 + Math.random() * 2
FoodRadii == {4 * Scale}
\* update, bot AI: the heading jitter (Math.random() - 0.5) * 1.5 when
\* Math.random() < 0.05, and 0 when not, for bot i
JitterSet(i) == IF i = 1 THEN {0, 60} ELSE {0}
\* update, boost drop: the two offsets (Math.random() - 0.5) * 20
DropOffsets == {Pt(-10 * Scale, -7 * Scale)}
\* createFood(): Math.random() * WORLD_SIZE - WORLD_SIZE / 2, twice
FoodSpawns == {Pt(-300 * Scale, 700 * Scale)}
\* killSnake, respawn timer: position, heading and skin of the new bot
RespawnSpots == {Pt(-1990 * Scale, -1500 * Scale)}
RespawnAngles == {0}
SkinSet == {0}

(***************************************************************************)
(* The world an update works on: the refs, the shell state the callbacks   *)
(* write, and the history.                                                 *)
(***************************************************************************)
\* allSnakes = [player, ...botsRef.current]: index 0 is the player
Snk(w, k) == IF k = 0 THEN w.player ELSE w.bots[k]
PutSnk(w, k, s) ==
    IF k = 0 THEN [w EXCEPT !.player = s] ELSE [w EXCEPT !.bots[k] = s]
LastSnk(w) == Len(w.bots)

\* a forEach that takes the segments with 0-based index 2, 5, 8, ...
RECURSIVE CarcassFoodShifted(_, _, _, _)
CarcassFoodShifted(body, i, id, rr) ==
    IF i > Len(body) THEN <<>>
    ELSE IF i % 3 = 0
         THEN <<createFood(id, body[i].x, body[i].y, CARCASS_VALUE, rr)>>
              \o CarcassFoodShifted(body, i + 1, id + 1, rr)
         ELSE CarcassFoodShifted(body, i + 1, id, rr)

\* killSnake's forEach: a food of value 20 at every third segment
RECURSIVE CarcassFood(_, _, _, _)
CarcassFood(body, i, id, rr) ==
    IF i > Len(body) THEN <<>>
    ELSE IF (i - 1) % 3 = 0
         THEN <<createFood(id, body[i].x, body[i].y, CARCASS_VALUE, rr)>>
              \o CarcassFood(body, i + 1, id + 1, rr)
         ELSE CarcassFood(body, i + 1, id, rr)

\* App.handleGameOver, reached through the prop onGameOver
handleGameOver(w, score) ==
    [w EXCEPT !.finalScore = score, !.gameState = "GAME_OVER",
              !.gameOverCalls = @ + 1]

\* killSnake(snake) for snake k of allSnakes; cause and by go to the
\* history only; rr is the radius draw of the carcass food
killSnake(w, k, cause, by, rr) ==
    LET snake == Snk(w, k)
        carcass == CarcassFood(snake.body, 1, w.nextFood, rr)
        w1 == PutSnk(w, k, [snake EXCEPT !.isDead = TRUE])
        w2 == [w1 EXCEPT !.food = @ \o carcass,
                         !.nextFood = @ + Len(carcass),
                         !.kills = Append(@, [tick |-> w.tick,
                                              ref |-> snake.ref,
                                              cause |-> cause, by |-> by])]
    IN  IF snake.isBot
        THEN [w2 EXCEPT !.timers = Append(@, [ref |-> snake.ref,
                            id |-> snake.id, name |-> snake.name,
                            color |-> snake.color])]
        ELSE handleGameOver(w2, w2.scoreRef)

(***************************************************************************)
(* update, stage 1: player input.                                          *)
(***************************************************************************)
TargetAngle(mouse) ==
    getAngle(Pt(Viewport.innerWidth \div 2, Viewport.innerHeight \div 2),
             Pt(mouse.x, mouse.y))

\* a turn by the whole difference
SteerUnclamped(angle, targetAngle) ==
    angle + getShortestAngleDiff(angle, targetAngle)

\* "Smooth turning"
Steer(angle, targetAngle) ==
    LET diff == getShortestAngleDiff(angle, targetAngle)
    IN  angle + Sign(diff) * Min(Abs(diff), TURN_SPEED)

PlayerInput(w) ==
    LET player == w.player
    IN  [w EXCEPT !.player =
            [player EXCEPT
                !.angle = Steer(player.angle, TargetAngle(w.mouse)),
                !.isBoosting = w.mouse.mouseDown
                               /\ player.length > PLAYER_BOOST_MIN * 10]]

(***************************************************************************)
(* update, stage 2: bot AI.  The result is the set of worlds the draws     *)
(* can produce.                                                            *)
(***************************************************************************)
\* an avoidance that leaves the heading alone
AvoidNothing(head, angle) == angle

\* "Avoid borders"
AvoidBorders(head, angle) ==
    LET a1 == IF Abs(head.x) > Half - BORDER_MARGIN * Scale
              THEN (IF head.x > 0 THEN PI ELSE 0)
              ELSE angle
    IN  IF Abs(head.y) > Half - BORDER_MARGIN * Scale
        THEN (IF head.y > 0 THEN -(PI \div 2) ELSE PI \div 2)
        ELSE a1

\* boost draws without the length gate
BotBoostAny(bot) == BOOLEAN

\* "Random boost": the flag the two draws can leave
BotBoostDraws(bot) ==
    IF bot.length > BOT_BOOST_MIN * 10 THEN BOOLEAN ELSE {FALSE}

BotAI(w, i) ==
    LET bot == w.bots[i]
    IN  IF bot.isDead THEN {w}
        ELSE { [w EXCEPT !.bots[i] =
                   [bot EXCEPT
                       !.angle = AvoidBorders(bot.body[1], bot.angle + j),
                       !.isBoosting = b]] :
               j \in JitterSet(i), b \in BotBoostDraws(bot) }

RECURSIVE BotsAI(_, _, _)
BotsAI(W, i, n) ==
    IF i > n THEN W
    ELSE BotsAI(UNION { BotAI(w, i) : w \in W }, i + 1, n)

(***************************************************************************)
(* update, stage 3: move all snakes.                                       *)
(***************************************************************************)
\* a boundary check that looks at the y axis only
OutOfWorldY(p) == Abs(p.y) > Half

\* "Check World Boundaries"
OutOfWorld(p) == Abs(p.x) > Half \/ Abs(p.y) > Half

Speed(snake) == IF snake.isBoosting THEN BOOST_SPEED ELSE BASE_SPEED

\* "Boosting costs length": the guard of the shrink
BoostCosts(snake) ==
    snake.isBoosting /\ snake.length > INITIAL_LENGTH * 10

\* a Truncate that pops while body.length > Math.floor(length) + 1
TruncateLate(body, length) ==
    IF Len(body) > FloorLen(length) + 1
    THEN SubSeq(body, 1, FloorLen(length) + 1)
    ELSE body

\* a Truncate that pops one segment more
TruncateShort(body, length) ==
    IF Len(body) > FloorLen(length) - 1
    THEN SubSeq(body, 1, FloorLen(length) - 1)
    ELSE body

\* "Maintain length": pop the tail while body.length > Math.floor(length)
Truncate(body, length) ==
    IF Len(body) > FloorLen(length)
    THEN SubSeq(body, 1, FloorLen(length))
    ELSE body

\* the food dropped at the tail while boosting
DropFood(w, tail, off, rr) ==
    [w EXCEPT !.food = Append(@, createFood(w.nextFood, tail.x + off.x,
                                            tail.y + off.y, DROP_VALUE, rr)),
              !.nextFood = @ + 1]

MoveSnake(w, k) ==
    LET snake == Snk(w, k)
        newHead == movePoint(snake.body[1], snake.angle, Speed(snake))
        grown == <<newHead>> \o snake.body
        len2 == IF BoostCosts(snake) THEN snake.length - 1 ELSE snake.length
        moved == [snake EXCEPT !.body = Truncate(grown, len2),
                               !.length = len2]
        tail == grown[Len(grown)]
    IN  IF snake.isDead THEN {w}
        ELSE IF OutOfWorld(newHead)
        THEN { killSnake(w, k, "bounds", snake.ref, rr) : rr \in FoodRadii }
        ELSE IF BoostCosts(snake)
        THEN {PutSnk(w, k, moved)}
             \cup { PutSnk(DropFood(w, tail, off, rr), k, moved) :
                    off \in DropOffsets, rr \in FoodRadii }
        ELSE {PutSnk(w, k, moved)}

RECURSIVE MoveAll(_, _, _)
MoveAll(W, k, n) ==
    IF k > n THEN W
    ELSE MoveAll(UNION { MoveSnake(w, k) : w \in W }, k + 1, n)

(***************************************************************************)
(* update, stage 4: food.                                                  *)
(***************************************************************************)
\* a head radius without its base of 15
HeadGrowthOnly(snake) == Min(10 * Scale, (snake.length * Scale) \div 500)

\* headRadius = 15 + Math.min(10, snake.length / 50)
HeadRadius(snake) ==
    15 * Scale + Min(10 * Scale, (snake.length * Scale) \div 500)

\* a splice that removes the element after index i
RemoveAfter(seq, i) == SubSeq(seq, 1, i) \o SubSeq(seq, i + 2, Len(seq))

\* foodRef.current.splice(i, 1), for the 1-based index i
RemoveAt(seq, i) == SubSeq(seq, 1, i - 1) \o SubSeq(seq, i + 1, Len(seq))

\* a test that takes every snake for the player
AnySnake(w, k) == TRUE

\* snake === player, for snake k of allSnakes
IsPlayer(w, k) == k = 0

\* one consumption: the body of the if in the "Eat Food" loop
Consume(w, k, i) ==
    LET snake == Snk(w, k)
        f == w.food[i]
        fed == [snake EXCEPT !.length = @ + f.value, !.score = @ + f.value]
        w1 == PutSnk(w, k, fed)
        w2 == IF IsPlayer(w, k)
              THEN [w1 EXCEPT !.scoreRef = fed.score,
                              !.currentScore = fed.score,
                              !.scoreLog = Append(@, fed.score)]
              ELSE w1
    IN  [w2 EXCEPT !.food = RemoveAt(@, i),
                   !.eats = Append(@, [tick |-> w.tick, ref |-> snake.ref,
                                       food |-> f])]

\* the "Eat Food" loop of snake k, from index i down to 1; head and
\* headRadius are the constants taken before the loop
RECURSIVE EatLoop(_, _, _, _, _)
EatLoop(w, k, i, head, headRadius) ==
    IF i < 1 THEN w
    ELSE IF checkCircleCollision(head, headRadius,
                                 Pt(w.food[i].x, w.food[i].y),
                                 w.food[i].radius)
         THEN EatLoop(Consume(w, k, i), k, i - 1, head, headRadius)
         ELSE EatLoop(w, k, i - 1, head, headRadius)

\* "Respawn Food", run once in the iteration of every living snake
RespawnFood(w) ==
    IF Len(w.food) < FoodCount
    THEN {w} \cup { [w EXCEPT !.food = Append(@, createFood(w.nextFood, p.x,
                                                  p.y, FOOD_VALUE, rr)),
                              !.nextFood = @ + 1] :
                    p \in FoodSpawns, rr \in FoodRadii }
    ELSE {w}

EatSnake(w, k) ==
    LET snake == Snk(w, k)
    IN  IF snake.isDead THEN {w}
        ELSE RespawnFood(EatLoop(w, k, Len(w.food), snake.body[1],
                                 HeadRadius(snake)))

RECURSIVE EatAll(_, _, _)
EatAll(W, k, n) ==
    IF k > n THEN W
    ELSE EatAll(UNION { EatSnake(w, k) : w \in W }, k + 1, n)

(***************************************************************************)
(* update, stage 5: snake against snake.                                   *)
(***************************************************************************)
\* the for loop over the segments of snakeB: 0-based indices startIndex,
\* startIndex + 2, ... below body.length
TouchesBody(headA, bodyB, startIndex) ==
    \E i \in 0..(Len(bodyB) - 1) :
        /\ i >= startIndex
        /\ (i - startIndex) % 2 = 0
        /\ DistLess(headA, bodyB[i + 1], LETHAL_RADIUS * Scale)

\* an inner callback that kills snakeB on a hit
HitCheckKillsB(w, a, b, headA) ==
    LET snakeB == Snk(w, b)
        startIndex == IF a = b THEN SELF_SKIP ELSE 0
    IN  IF snakeB.isDead THEN {w}
        ELSE IF TouchesBody(headA, snakeB.body, startIndex)
        THEN { killSnake(w, b, "hit", Snk(w, a).ref, rr) : rr \in FoodRadii }
        ELSE {w}

\* the inner callback, for snakeA = a and snakeB = b; its return leaves
\* this callback only
HitCheck(w, a, b, headA) ==
    LET snakeB == Snk(w, b)
        startIndex == IF a = b THEN SELF_SKIP ELSE 0
    IN  IF snakeB.isDead THEN {w}
        ELSE IF TouchesBody(headA, snakeB.body, startIndex)
        THEN { killSnake(w, a, "hit", snakeB.ref, rr) : rr \in FoodRadii }
        ELSE {w}

\* the inner forEach over allSnakes
RECURSIVE HitLoop(_, _, _, _, _)
HitLoop(W, a, b, n, headA) ==
    IF b > n THEN W
    ELSE HitLoop(UNION { HitCheck(w, a, b, headA) : w \in W },
                 a, b + 1, n, headA)

\* the outer callback, for snakeA = a
HitSnake(w, a) ==
    LET snakeA == Snk(w, a)
    IN  IF snakeA.isDead THEN {w}
        ELSE HitLoop({w}, a, 0, LastSnk(w), snakeA.body[1])

RECURSIVE HitAll(_, _, _)
HitAll(W, a, n) ==
    IF a > n THEN W
    ELSE HitAll(UNION { HitSnake(w, a) : w \in W }, a + 1, n)

(***************************************************************************)
(* update: particles, camera and leaderboard.                              *)
(***************************************************************************)
\* particlesRef.current.forEach: the loop over the particles.  No code
\* creates a particle, so the collection an update sees is empty.
UpdateParticles(w) == w

UpdateCamera(w) ==
    IF ~w.player.isDead
    THEN [w EXCEPT !.camera =
            Pt(lerp(w.camera.x, w.player.body[1].x, 1),
               lerp(w.camera.y, w.player.body[1].y, 1))]
    ELSE w

\* insertion of s into a list sorted by descending score, after its equals
RECURSIVE InsertByScore(_, _)
InsertByScore(sorted, s) ==
    IF sorted = <<>> THEN <<s>>
    ELSE IF sorted[1].score >= s.score
         THEN <<sorted[1]>> \o InsertByScore(Tail(sorted), s)
         ELSE <<s>> \o sorted

\* Array.prototype.sort((a, b) => b.score - a.score), which is stable
RECURSIVE SortByScore(_)
SortByScore(seq) ==
    IF seq = <<>> THEN <<>>
    ELSE InsertByScore(SortByScore(SubSeq(seq, 1, Len(seq) - 1)),
                       seq[Len(seq)])

\* a filter that keeps every snake
Everyone(seq) == seq

\* .filter(s => !s.isDead)
Living(seq) == SelectSeq(seq, LAMBDA s : ~s.isDead)

Leaders(w) ==
    LET top == SortByScore(Living(<<w.player>> \o w.bots))
        cut == SubSeq(top, 1, Min(LEADERS, Len(top)))
    IN  [i \in 1..Len(cut) |-> [name |-> cut[i].name, score |-> cut[i].score]]

\* "Update Leaderboard Data periodically": Math.random() < 0.05
PublishLeaders(w) == {w, [w EXCEPT !.leaderboard = Leaders(w)]}

(***************************************************************************)
(* update: the worlds one tick can lead to, for a living player.           *)
(***************************************************************************)
update(w) ==
    LET n == LastSnk(w)
        W2 == BotsAI({PlayerInput(w)}, 1, n)
        W3 == MoveAll(W2, 0, n)
        W4 == EatAll(W3, 0, n)
        W5 == HitAll(W4, 0, n)
    IN  UNION { PublishLeaders(UpdateCamera(UpdateParticles(w5))) :
                w5 \in W5 }

(***************************************************************************)
(* World construction.                                                     *)
(***************************************************************************)
\* initGame: startX, startY = Math.random() * 1000 - 500, and the heading
PlayerStarts == {Pt(0, 0)}
PlayerAngles == {0}

\* initGame: the position Math.random() * WORLD_SIZE - WORLD_SIZE / 2 and
\* the heading of bot i
Spawn(x, y, a) == [x |-> x * Scale, y |-> y * Scale, angle |-> a]
BotStarts(i) ==
    IF i = 1 THEN {Spawn(-45, 19, 0), Spawn(20, 10, 0), Spawn(20, 40, 0),
                   Spawn(1961, 19, 0)}
    ELSE IF i = 2 THEN {Spawn(20, -8, 0), Spawn(30, 40, PI),
                        Spawn(-1000, -1000, 0)}
    ELSE {Spawn(-1000, 100 * i - 1000, 0)}

\* initGame: the positions of the initial food
FoodStarts == {Pt(15 * Scale, 5 * Scale), Pt(600 * Scale, -900 * Scale)}

\* the player, the bots and the food initGame can build with first
\* address ref and first food id fid
NewPlayers(ref, starts, angles) ==
    { createSnake(ref, PlayerId, PlayerName, p.x, p.y, SNAKE_COLORS[1],
                  FALSE, a, sk) :
      p \in starts, a \in angles, sk \in SkinSet }

NewBot(ref, i) ==
    { createSnake(ref, BotId(i), BotName(i), p.x, p.y, BotColor(i), TRUE,
                  p.angle, sk) :
      p \in BotStarts(i), sk \in SkinSet }

RECURSIVE NewBots(_, _, _)
NewBots(ref, i, n) ==
    IF i > n THEN {<<>>}
    ELSE { <<b>> \o rest : b \in NewBot(ref, i),
                           rest \in NewBots(ref + 1, i + 1, n) }

RECURSIVE NewFood(_, _)
NewFood(fid, n) ==
    IF n = 0 THEN {<<>>}
    ELSE { <<createFood(fid, p.x, p.y, FOOD_VALUE, rr)>> \o rest :
           p \in FoodStarts, rr \in FoodRadii,
           rest \in NewFood(fid + 1, n - 1) }

\* initGame: everything is rebuilt; the camera and the timers are not
\* touched
initGame ==
    /\ playerRef' \in { <<p>> : p \in NewPlayers(nextRef, PlayerStarts,
                                                 PlayerAngles) }
    /\ scoreRef' = 0
    /\ currentScore' = 0
    /\ botsRef' \in NewBots(nextRef + 1, 1, NumBots)
    /\ foodRef' \in NewFood(nextFood, FoodCount)
    /\ particlesRef' = <<>>
    /\ nextRef' = nextRef + 1 + NumBots
    /\ nextFood' = nextFood + FoodCount
    /\ session' = session + 1
    /\ sessionBase' = nextRef
    /\ gameOverCalls' = 0
    /\ scoreLog' = <<0>>
    /\ kills' = <<>>
    /\ eats' = <<>>

(***************************************************************************)
(* Initial states: the mounted component before any session, and worlds    *)
(* in the middle of a first session that the short runs of the model       *)
(* cannot walk to.                                                         *)
(***************************************************************************)
\* lastFire before any respawn callback has run
NoFire == [ref |-> 0, slot |-> 0, newRef |-> 0, session |-> 0]

\* lastFrame before any frame callback has run
NoFrame == [gameState |-> "MENU", update |-> "none", rescheduled |-> FALSE,
            from |-> 0, to |-> 0]

\* lastFrame in the middle of a session: the last frame ran a tick
Ticked == [gameState |-> "PLAYING", update |-> "tick", rescheduled |-> TRUE,
           from |-> 0, to |-> 0]

Mounted ==
    /\ gameState = "MENU"
    /\ finalScore = 0
    /\ currentScore = 0
    /\ leaderboard = <<>>
    /\ requestRef = FALSE
    /\ mouseRef = [x |-> 0, y |-> 0, mouseDown |-> FALSE]
    /\ playerRef = <<>>
    /\ botsRef = <<>>
    /\ foodRef = <<>>
    /\ particlesRef = <<>>
    /\ cameraRef = Pt(0, 0)
    /\ scoreRef = 0
    /\ effectState = "MENU"
    /\ loopState = "MENU"
    /\ timers = <<>>
    /\ nextRef = 1
    /\ nextFood = 1
    /\ tick = 0
    /\ session = 0
    /\ sessionBase = 1
    /\ gameOverCalls = 0
    /\ scoreLog = <<>>
    /\ kills = <<>>
    /\ eats = <<>>
    /\ lastFire = NoFire
    /\ lastFrame = NoFrame

\* A player that has travelled to the right without eating: straight body,
\* heading 0, one step and a half away from the right border.
Traveller ==
    createSnake(1, PlayerId, PlayerName, 1991 * Scale, 0, SNAKE_COLORS[1],
                FALSE, 0, 0)

\* A player that has eaten six foods of value 10 and has grown to its
\* target length on a straight run to the right, 5 units from the upper
\* border.
Grown ==
    [Traveller EXCEPT
        !.body = [i \in 1..16 |-> Pt(-(i - 1) * 5 * Scale, -1995 * Scale)],
        !.length = 160, !.score = 60]

\* the setScore calls that lead to a score of s in steps of 10
ScoreHistory(s) == [i \in 1..(s \div 10 + 1) |-> (i - 1) * 10]

\* bots that have just been respawned, away from the player's start area
FarBots ==
    { bs \in NewBots(2, 1, NumBots) :
        \A i \in 1..NumBots : Abs(bs[i].body[1].x) >= 1000 * Scale }

\* A world right after construction: the player at the centre, bot 1 above
\* it, and the head of bot 2 about to come between their bodies.
Newcomer ==
    createSnake(1, PlayerId, PlayerName, 0, 0, SNAKE_COLORS[1], FALSE, 0, 0)

Squeezed ==
    [i \in 1..NumBots |->
        LET at == IF i = 1 THEN Spawn(0, 36, 0)
                  ELSE IF i = 2 THEN Spawn(-35, 18, 0)
                  ELSE Spawn(-1000, 100 * i - 1000, 0)
        IN  createSnake(i + 1, BotId(i), BotName(i), at.x, at.y,
                        BotColor(i), TRUE, at.angle, 0)]

Roaming ==
    /\ gameState = "PLAYING"
    /\ finalScore = 0
    /\ leaderboard = <<>>
    /\ requestRef = TRUE
    /\ mouseRef = [x |-> 0, y |-> 0, mouseDown |-> FALSE]
    /\ playerRef \in {<<Traveller>>, <<Grown>>, <<Newcomer>>}
    /\ currentScore = playerRef[1].score
    /\ scoreRef = playerRef[1].score
    /\ scoreLog = ScoreHistory(playerRef[1].score)
    /\ botsRef \in IF playerRef = <<Newcomer>> THEN {Squeezed} ELSE FarBots
    /\ foodRef \in NewFood(1, FoodCount)
    /\ particlesRef = <<>>
    \* the camera trails the head of a player on a straight run by 45 units
    \* and starts where the newcomer starts
    /\ cameraRef = IF playerRef = <<Newcomer>> THEN Pt(0, 0)
                   ELSE Pt(playerRef[1].body[1].x - 45 * Scale,
                           playerRef[1].body[1].y)
    /\ effectState = "PLAYING"
    /\ loopState = "PLAYING"
    /\ timers = <<>>
    /\ nextRef = NumBots + 2
    /\ nextFood = FoodCount + 1
    /\ tick = 0
    /\ session = 1
    /\ sessionBase = 1
    /\ gameOverCalls = 0
    /\ kills = <<>>
    /\ eats = <<>>
    /\ lastFire = NoFire
    /\ lastFrame = IF playerRef = <<Newcomer>> THEN NoFrame ELSE Ticked

Init == Mounted \/ Roaming

\* The scenario of a world with one creature and one consumable under its
\* head: the player fresh at the centre, fresh one step from the right
\* border, or grown; the pointer at rest or held down to the right.
SoloPlayers ==
    NewPlayers(1, {Pt(0, 0), Pt(1996 * Scale, 0)}, PlayerAngles)
        \cup {Grown}

InitOne ==
    /\ gameState = "PLAYING"
    /\ finalScore = 0
    /\ leaderboard = <<>>
    /\ requestRef = TRUE
    /\ mouseRef \in {[x |-> 0, y |-> 0, mouseDown |-> FALSE],
                     [x |-> 800, y |-> 300, mouseDown |-> TRUE]}
    /\ playerRef \in { <<p>> : p \in SoloPlayers }
    /\ currentScore = playerRef[1].score
    /\ scoreRef = playerRef[1].score
    /\ scoreLog = ScoreHistory(playerRef[1].score)
    /\ botsRef = <<>>
    /\ foodRef \in { <<createFood(1, playerRef[1].body[1].x,
                                  playerRef[1].body[1].y, v, rr)>> :
                      v \in {DROP_VALUE, FOOD_VALUE, CARCASS_VALUE},
                      rr \in FoodRadii }
    /\ particlesRef = <<>>
    /\ cameraRef = playerRef[1].body[1]
    /\ effectState = "PLAYING"
    /\ loopState = "PLAYING"
    /\ timers = <<>>
    /\ nextRef = 2
    /\ nextFood = 2
    /\ tick = 0
    /\ session = 1
    /\ sessionBase = 1
    /\ gameOverCalls = 0
    /\ kills = <<>>
    /\ eats = <<>>
    /\ lastFire = NoFire
    /\ lastFrame = Ticked

(***************************************************************************)
(* Worlds in the middle of a first session, for the steering, the          *)
(* leaderboard and the boost.                                              *)
(***************************************************************************)
\* a session in its middle with player p, bots bs, food fs and pointer m
Scene(p, bs, fs, m) ==
    /\ gameState = "PLAYING"
    /\ finalScore = 0
    /\ leaderboard = <<>>
    /\ requestRef = TRUE
    /\ mouseRef = m
    /\ playerRef = <<p>>
    /\ currentScore = p.score
    /\ scoreRef = p.score
    /\ scoreLog = ScoreHistory(p.score)
    /\ botsRef = bs
    /\ foodRef = fs
    /\ particlesRef = <<>>
    /\ cameraRef = p.body[1]
    /\ effectState = "PLAYING"
    /\ loopState = "PLAYING"
    /\ timers = <<>>
    /\ nextRef = Len(bs) + 2
    /\ nextFood = Len(fs) + 1
    /\ tick = 0
    /\ session = 1
    /\ sessionBase = 1
    /\ gameOverCalls = 0
    /\ kills = <<>>
    /\ eats = <<>>
    /\ lastFire = NoFire
    /\ lastFrame = Ticked

\* one food far from every creature of the scenarios
FarFood == <<createFood(1, 600 * Scale, -900 * Scale, FOOD_VALUE, 4 * Scale)>>

\* a snake on a straight run to the right that has scored score and has
\* boosted for shrunk ticks since: length 10 + score / 10 - shrunk / 10
Runner(ref, id, name, color, isBot, x, y, score, shrunk) ==
    [createSnake(ref, id, name, x, y, color, isBot, 0, 0) EXCEPT
        !.body = [i \in 1..FloorLen(INITIAL_LENGTH * 10 + score - shrunk)
                      |-> Pt(x - (i - 1) * 5 * Scale, y)],
        !.length = INITIAL_LENGTH * 10 + score - shrunk,
        !.score = score]

\* bot i of a scenario
Veteran(i, x, y, score, shrunk) ==
    Runner(i + 1, BotId(i), BotName(i), BotColor(i), TRUE, x * Scale,
           y * Scale, score, shrunk)

\* Steering: the player alone at the centre, with any heading, and the
\* pointer to the left, above, at the corner or to the right of the centre
\* of the viewport.
MouseLab == {Pt(300, 300), Pt(400, 200), Pt(0, 0), Pt(500, 300)}

SteerScene ==
    \E a \in (-MaxAngle)..MaxAngle, m \in MouseLab :
        Scene(createSnake(1, PlayerId, PlayerName, 0, 0, SNAKE_COLORS[1],
                          FALSE, a, 0),
              <<>>, FarFood, [x |-> m.x, y |-> m.y, mouseDown |-> FALSE])

\* Leaderboard: the player three steps from the right border and BoardBots
\* bots in rows 200 apart, with equal scores among them; bot 2 is about
\* to run into the body of bot 1, and bot 4 is in the lower right corner,
\* 10 from the right border and 150 from the lower one.
BoardScore(i) ==
    IF i = 1 THEN 20 ELSE IF i = 2 THEN 60 ELSE IF i = 3 THEN 20
    ELSE IF i = 4 THEN 0 ELSE IF i = 5 THEN 60 ELSE 40

BoardScene ==
    Scene(Runner(1, PlayerId, PlayerName, SNAKE_COLORS[1], FALSE,
                 1986 * Scale, 0, 0, 0),
          [i \in 1..BoardBots |->
              IF i = 2 THEN Veteran(2, -1020, -1015, BoardScore(2), 0)
              ELSE IF i = 4 THEN Veteran(4, 1990, 1850, BoardScore(4), 0)
              ELSE Veteran(i, -1000, 200 * i - 1200, BoardScore(i), 0)],
          FarFood, [x |-> 0, y |-> 0, mouseDown |-> FALSE])

\* Boost: the player at length 15.1 with the boost input held, and a bot
\* at length 20.1 that reaches the margin of the right border.
BoostScene ==
    Scene(Runner(1, PlayerId, PlayerName, SNAKE_COLORS[1], FALSE, 0,
                 500 * Scale, 60, 9),
          <<Veteran(1, 1800, -1000, 110, 9)>>,
          FarFood, [x |-> 800, y |-> 300, mouseDown |-> TRUE])

InitLab == SteerScene \/ BoardScene \/ BoostScene

(***************************************************************************)
(* App.tsx: the shell.                                                     *)
(***************************************************************************)
\* handleStartGame, for a non-empty playerName; the event is handled after
\* the effects of the previous render have run
handleStartGame ==
    /\ gameState = "MENU"
    /\ effectState = gameState
    /\ session < MaxSessions
    /\ gameState' = "PLAYING"
    /\ UNCHANGED <<finalScore, currentScore, leaderboard, requestRef,
                   mouseRef, playerRef, botsRef, foodRef, particlesRef,
                   cameraRef, scoreRef, effectState, loopState, timers,
                   nextRef, nextFood, tick, session, sessionBase,
                   gameOverCalls, scoreLog, kills, eats, lastFire,
                   lastFrame>>

\* the "Play Again" button of the game-over screen
handlePlayAgain ==
    /\ gameState = "GAME_OVER"
    /\ effectState = gameState
    /\ gameState' = "MENU"
    /\ UNCHANGED <<finalScore, currentScore, leaderboard, requestRef,
                   mouseRef, playerRef, botsRef, foodRef, particlesRef,
                   cameraRef, scoreRef, effectState, loopState, timers,
                   nextRef, nextFood, tick, session, sessionBase,
                   gameOverCalls, scoreLog, kills, eats, lastFire,
                   lastFrame>>

(***************************************************************************)
(* GameCanvas.tsx: the effect, the frame loop, the timers, the input.      *)
(***************************************************************************)
\* useEffect on [gameState, initGame]: the cleanup of the previous run
\* cancels the pending frame, then the body runs for the new gameState
RunEffect ==
    /\ effectState # gameState
    /\ effectState' = gameState
    /\ IF gameState = "PLAYING"
       THEN /\ initGame
            /\ requestRef' = TRUE
            /\ loopState' = gameState
       ELSE /\ requestRef' = FALSE
            /\ UNCHANGED <<loopState, playerRef, scoreRef, currentScore,
                           botsRef, foodRef, particlesRef, nextRef,
                           nextFood, session, sessionBase,
                           gameOverCalls, scoreLog, kills, eats>>
    /\ UNCHANGED <<gameState, finalScore, leaderboard, mouseRef, cameraRef,
                   timers, tick, lastFire, lastFrame>>

\* the world the update of tick number t works on
WorldOf(t) ==
    [player |-> playerRef[1], bots |-> botsRef, food |-> foodRef,
     timers |-> timers, nextFood |-> nextFood, scoreRef |-> scoreRef,
     currentScore |-> currentScore, scoreLog |-> scoreLog,
     finalScore |-> finalScore, gameState |-> gameState,
     gameOverCalls |-> gameOverCalls, kills |-> kills, eats |-> eats,
     tick |-> t, mouse |-> mouseRef, camera |-> cameraRef,
     leaderboard |-> leaderboard]

\* a guard that looks for a missing player only
PlayerMissing(p) == p = <<>>

\* the guard of update: !playerRef.current || playerRef.current.isDead
PlayerGone(p) == p = <<>> \/ p[1].isDead

\* what a frame callback did: the gameState of the shell when it ran,
\* how far its update went, whether it requested the next frame, and the
\* heading and the desired heading its update steered with
Frame(u, r) ==
    [gameState |-> gameState, update |-> u, rescheduled |-> r,
     from |-> IF u = "tick" THEN playerRef[1].angle ELSE 0,
     to |-> IF u = "tick" THEN TargetAngle(mouseRef) ELSE 0]

\* gameLoop, the frame callback: update(); draw(); and the next request.
\* draw reads the refs and writes the canvas only.
gameLoop ==
    /\ requestRef
    /\ IF loopState # "PLAYING"
       THEN /\ requestRef' = FALSE
            /\ lastFrame' = Frame("none", FALSE)
            /\ UNCHANGED <<gameState, finalScore, currentScore, leaderboard,
                           playerRef, botsRef, foodRef, cameraRef, scoreRef,
                           timers, nextFood, tick, gameOverCalls, scoreLog,
                           kills, eats>>
       ELSE IF PlayerGone(playerRef)
       THEN /\ lastFrame' = Frame("noop", TRUE)
            /\ UNCHANGED <<requestRef, gameState, finalScore, currentScore,
                           leaderboard, playerRef, botsRef, foodRef,
                           cameraRef, scoreRef, timers, nextFood, tick,
                           gameOverCalls, scoreLog, kills, eats>>
       ELSE /\ tick < MaxTicks
            /\ lastFrame' = Frame("tick", TRUE)
            /\ \E w \in update(WorldOf(tick + 1)) :
                /\ playerRef' = <<w.player>>
                /\ botsRef' = w.bots
                /\ foodRef' = w.food
                /\ timers' = w.timers
                /\ nextFood' = w.nextFood
                /\ scoreRef' = w.scoreRef
                /\ currentScore' = w.currentScore
                /\ scoreLog' = w.scoreLog
                /\ finalScore' = w.finalScore
                /\ gameState' = w.gameState
                /\ gameOverCalls' = w.gameOverCalls
                /\ kills' = w.kills
                /\ eats' = w.eats
                /\ cameraRef' = w.camera
                /\ leaderboard' = w.leaderboard
            /\ tick' = tick + 1
            /\ requestRef' = TRUE
    /\ UNCHANGED <<mouseRef, particlesRef, effectState, loopState, nextRef,
                   session, sessionBase, lastFire>>

\* a lookup that answers the last slot
IndexOfLast(bots, snake) == Len(bots)

\* a lookup of the slot by the id of the snake, not by the object
IndexOfBotById(bots, snake) ==
    IF \E i \in 1..Len(bots) : bots[i].id = snake.id
    THEN CHOOSE i \in 1..Len(bots) : bots[i].id = snake.id
    ELSE 0

\* botsRef.current.indexOf(snake): the 1-based slot of the object, 0 for -1
IndexOfBot(bots, snake) ==
    IF \E i \in 1..Len(bots) : bots[i].ref = snake.ref
    THEN CHOOSE i \in 1..Len(bots) : bots[i].ref = snake.ref
    ELSE 0

\* a replacement that takes the id of the second bot
RespawnedAsSecond(snake, ref, p, angle, skinIndex) ==
    createSnake(ref, BotId(2), snake.name, p.x, p.y, snake.color, TRUE,
                angle, skinIndex)

\* a replacement that takes the first color, not the color of the snake
RespawnedPlain(snake, ref, p, angle, skinIndex) ==
    createSnake(ref, snake.id, snake.name, p.x, p.y, SNAKE_COLORS[1], TRUE,
                angle, skinIndex)

\* the createSnake call of the respawn callback
Respawned(snake, ref, p, angle, skinIndex) ==
    createSnake(ref, snake.id, snake.name, p.x, p.y, snake.color, TRUE,
                angle, skinIndex)

\* the setTimeout callback of killSnake; equal delays fire in the order of
\* their scheduling
RespawnTimer ==
    /\ timers # <<>>
    /\ LET t == Head(timers)
           idx == IndexOfBot(botsRef, t)
       IN  IF idx # 0
           THEN /\ \E p \in RespawnSpots, a \in RespawnAngles, sk \in SkinSet :
                     botsRef' = [botsRef EXCEPT ![idx] =
                                    Respawned(t, nextRef, p, a, sk)]
                /\ nextRef' = nextRef + 1
                /\ lastFire' = [ref |-> t.ref, slot |-> idx,
                                newRef |-> nextRef, session |-> session]
           ELSE /\ UNCHANGED <<botsRef, nextRef>>
                /\ lastFire' = [ref |-> t.ref, slot |-> 0, newRef |-> 0,
                                session |-> session]
    /\ timers' = Tail(timers)
    /\ UNCHANGED <<gameState, finalScore, currentScore, leaderboard,
                   requestRef, mouseRef, playerRef, foodRef, particlesRef,
                   cameraRef, scoreRef, effectState, loopState, nextFood,
                   tick, session, sessionBase, gameOverCalls, scoreLog,
                   kills, eats, lastFrame>>

\* clientX, clientY of the pointer events
MousePositions == {Pt(800, 300)}

NoInputChange ==
    UNCHANGED <<gameState, finalScore, currentScore, leaderboard,
                requestRef, playerRef, botsRef, foodRef, particlesRef,
                cameraRef, scoreRef, effectState, loopState, timers,
                nextRef, nextFood, tick, session, sessionBase,
                gameOverCalls, scoreLog, kills, eats, lastFire, lastFrame>>

handleMouseMove ==
    /\ \E p \in MousePositions :
          mouseRef' = [mouseRef EXCEPT !.x = p.x, !.y = p.y]
    /\ NoInputChange

handleMouseDown ==
    /\ mouseRef' = [mouseRef EXCEPT !.mouseDown = TRUE]
    /\ NoInputChange

handleMouseUp ==
    /\ mouseRef' = [mouseRef EXCEPT !.mouseDown = FALSE]
    /\ NoInputChange

\* a touch event with at least one touch point
handleTouchStart ==
    /\ \E p \in MousePositions :
          mouseRef' = [x |-> p.x, y |-> p.y, mouseDown |-> TRUE]
    /\ NoInputChange

handleTouchMove ==
    /\ \E p \in MousePositions :
          mouseRef' = [mouseRef EXCEPT !.x = p.x, !.y = p.y]
    /\ NoInputChange

handleTouchEnd ==
    /\ mouseRef' = [mouseRef EXCEPT !.mouseDown = FALSE]
    /\ NoInputChange

Next ==
    \/ handleStartGame
    \/ handlePlayAgain
    \/ RunEffect
    \/ gameLoop
    \/ RespawnTimer
    \/ handleMouseMove
    \/ handleMouseDown
    \/ handleMouseUp
    \/ handleTouchStart
    \/ handleTouchMove
    \/ handleTouchEnd

Spec == Init /\ [][Next]_vars

\* the update applied to the one-creature scenario
SpecOne == InitOne /\ [][Next]_vars

\* the update applied to the steering, leaderboard and boost scenarios
SpecLab == InitLab /\ [][Next]_vars

\* the event loop runs every timer callback whose delay has elapsed
LiveSpec == Init /\ [][Next]_vars /\ WF_vars(RespawnTimer)

(***************************************************************************)
(* Properties.                                                             *)
(***************************************************************************)
\* allSnakes as the refs hold it: the player, if any, then the bots
Creatures == playerRef \o botsRef

\* a step that is a tick: an update that went past its guard
IsTick == tick' = tick + 1

\* creature i is the same object before and after the step
SameObject(i) ==
    /\ i <= Len(Creatures)
    /\ i <= Len(Creatures')
    /\ Creatures[i].ref = Creatures'[i].ref

\* C1, as claimed: after every completed tick every creature has
\* segments.length equal to floor(targetLength).
C1_Original ==
    \A i \in 1..Len(Creatures) :
        Len(Creatures[i].body) = FloorLen(Creatures[i].length)

\* C1, amended: after every step every creature has segments.length at most
\* floor(targetLength), and a creature that had segments.length equal to
\* floor(targetLength) before a tick in which its targetLength did not grow
\* (it consumed nothing) has it equal after the tick, boosting or not.
C1_Amended ==
    [][ \A i \in 1..Len(Creatures') :
          /\ Len(Creatures'[i].body) <= FloorLen(Creatures'[i].length)
          /\ ( /\ IsTick
               /\ SameObject(i)
               /\ Len(Creatures[i].body) = FloorLen(Creatures[i].length)
               /\ Creatures'[i].length <= Creatures[i].length )
             => Len(Creatures'[i].body) = FloorLen(Creatures'[i].length)
      ]_vars

\* C1, the case: a living creature that has consumed and has fewer segments
\* than floor(targetLength) at the end of the tick.
C1_Witness ==
    \E i \in 1..Len(Creatures) :
        /\ ~Creatures[i].isDead
        /\ \E j \in 1..Len(eats) :
              eats[j].ref = Creatures[i].ref /\ eats[j].tick = tick
        /\ Len(Creatures[i].body) < FloorLen(Creatures[i].length)

\* C2, as claimed: in every session onGameOver has been invoked exactly
\* once when the player is dead and not at all while the player is alive.
C2_Original ==
    playerRef # <<>> =>
        gameOverCalls = IF playerRef[1].isDead THEN 1 ELSE 0

\* a step that runs a respawn callback
IsRespawn == Len(timers') < Len(timers)

WorldUntouched ==
    /\ playerRef' = playerRef
    /\ botsRef' = botsRef
    /\ foodRef' = foodRef
    /\ particlesRef' = particlesRef

\* C3, as claimed: a respawn callback that runs after the player has died
\* and gameState has left PLAYING, before the next construction, changes
\* no entity collection.
C3_Original ==
    [][ ( /\ IsRespawn
          /\ playerRef # <<>>
          /\ playerRef[1].isDead
          /\ gameState # "PLAYING" )
        => WorldUntouched ]_vars

\* C4: a respawn callback for a snake of an earlier session that runs after
\* initGame has built the world of the current session changes no entity
\* collection, and every snake in the collections is an object of the
\* current session.
C4_StaleTimerIsNoOp ==
    [][ /\ (IsRespawn /\ Head(timers).ref < sessionBase) => WorldUntouched
        /\ \A i \in 1..Len(Creatures') : Creatures'[i].ref >= sessionBase'
      ]_vars

\* C4, the case: the last callback that ran was for a snake of an earlier
\* session and ran in the current session, in a world with all its bots.
C4_Witness ==
    /\ lastFire.ref # 0
    /\ lastFire.ref < sessionBase
    /\ lastFire.session = session
    /\ Len(botsRef) = NumBots

LivingBots == Len(Living(botsRef))

DeadSlot(i) == i <= Len(botsRef) /\ botsRef[i].isDead

FreshSlot(i) ==
    /\ i <= Len(botsRef)
    /\ ~botsRef[i].isDead
    /\ botsRef[i].isBot
    /\ botsRef[i].id = BotId(i)
    /\ botsRef[i].name = BotName(i)
    /\ botsRef[i].color = BotColor(i)
    /\ botsRef[i].length = INITIAL_LENGTH * 10
    /\ Len(botsRef[i].body) = INITIAL_LENGTH
    /\ botsRef[i].score = 0

\* C5: a slot that holds a dead bot eventually holds a living, freshly
\* constructed bot with the id, name and color of the slot; a replacement
\* keeps id, name and color and raises the number of living bots by one;
\* a dead player is never replaced except by the next construction.
C5_DeadBotIsReplaced ==
    /\ \A i \in 1..NumBots : DeadSlot(i) ~> FreshSlot(i)
    /\ [][ /\ (IsRespawn /\ botsRef' # botsRef) =>
                /\ LivingBots' = LivingBots + 1
                /\ \A i \in 1..Len(botsRef) :
                      botsRef'[i] # botsRef[i] =>
                          /\ botsRef[i].isDead
                          /\ FreshSlot(i)'
                          /\ botsRef'[i].id = botsRef[i].id
                          /\ botsRef'[i].name = botsRef[i].name
                          /\ botsRef'[i].color = botsRef[i].color
           /\ ( /\ playerRef # <<>>
                /\ playerRef[1].isDead
                /\ session' = session ) => playerRef' = playerRef
         ]_vars

\* C5, the case: the last respawn callback replaced the bot of a slot, and
\* the slot still holds the living replacement.
C5_Witness ==
    /\ lastFire.slot # 0
    /\ lastFire.slot <= Len(botsRef)
    /\ botsRef[lastFire.slot].ref = lastFire.newRef
    /\ ~botsRef[lastFire.slot].isDead
    /\ \E i \in 1..Len(kills) : kills[i].ref = lastFire.ref

\* outside the arena: |x| or |y| above half the side of 4000
Beyond(p) == Abs(p.x) > 2000 * Scale \/ Abs(p.y) > 2000 * Scale

\* the new head motion integration computes for creature i in a tick: from
\* the head before the tick, with the heading and the boost flag the
\* steering stages of the tick have set
NewHeadOf(i) ==
    movePoint(Creatures[i].body[1], Creatures'[i].angle,
              IF Creatures'[i].isBoosting THEN BOOST_SPEED ELSE BASE_SPEED)

\* C6: a living creature whose new head in a tick lies outside the arena
\* is dead at the end of the tick, with its segments as they were; and the
\* segments of a dead creature never change.
C6_OutsideIsDeadAndStill ==
    [][ \A i \in 1..Len(Creatures) :
          /\ ( /\ IsTick
               /\ SameObject(i)
               /\ ~Creatures[i].isDead
               /\ Beyond(NewHeadOf(i)) )
             => ( /\ Creatures'[i].isDead
                  /\ Creatures'[i].body = Creatures[i].body )
          /\ (SameObject(i) /\ Creatures[i].isDead)
             => ( /\ Creatures'[i].isDead
                  /\ Creatures'[i].body = Creatures[i].body )
      ]_vars

\* C6, the case: a creature killed by the boundary check lies dead with its
\* head one step inside the border, after a tick.
C6_Witness ==
    \E i \in 1..Len(Creatures), j \in 1..Len(kills) :
        /\ kills[j].cause = "bounds"
        /\ kills[j].ref = Creatures[i].ref
        /\ Creatures[i].isDead
        /\ ~Beyond(Creatures[i].body[1])
        /\ Beyond(movePoint(Creatures[i].body[1], Creatures[i].angle,
                            IF Creatures[i].isBoosting THEN BOOST_SPEED
                            ELSE BASE_SPEED))

\* the value creature ref has consumed in the step: the sum over the
\* entries the step has added to eats, from entry j on
RECURSIVE GainedFrom(_, _)
GainedFrom(ref, j) ==
    IF j > Len(eats') THEN 0
    ELSE (IF eats'[j].ref = ref THEN eats'[j].food.value ELSE 0)
         + GainedFrom(ref, j + 1)
Gained(ref) == GainedFrom(ref, Len(eats) + 1)

\* the boost shrink of creature i in the step, in tenths
ShrunkBy(i) ==
    IF /\ Creatures'[i].isBoosting
       /\ Creatures[i].length > 100
       /\ Creatures'[i].body # Creatures[i].body
    THEN 1 ELSE 0

FoodIds(food) == { food[i].id : i \in 1..Len(food) }

\* C7: in a tick every creature gains in score exactly the values of the
\* consumables it consumed and in targetLength a tenth of them (less the
\* boost shrink of 0.1); consumed consumables were in the world, are gone
\* from it, and none is consumed twice; and no consumable that was in the
\* world all through the tick lies under the head of a creature that moved.
C7_ConsumedOnce ==
    [][ IsTick =>
          /\ \A i \in 1..Len(Creatures) :
                /\ Creatures'[i].score
                     = Creatures[i].score + Gained(Creatures[i].ref)
                /\ Creatures'[i].length
                     = Creatures[i].length + Gained(Creatures[i].ref)
                       - ShrunkBy(i)
          /\ \A j \in (Len(eats) + 1)..Len(eats') :
                /\ eats'[j].food.id \notin FoodIds(foodRef')
                /\ \/ \E k \in 1..Len(foodRef) : foodRef[k] = eats'[j].food
                   \/ eats'[j].food.id >= nextFood
                /\ \E i \in 1..Len(Creatures) :
                      /\ Creatures[i].ref = eats'[j].ref
                      /\ ~Creatures[i].isDead
          /\ \A j, k \in 1..Len(eats') :
                j # k => eats'[j].food.id # eats'[k].food.id
          /\ \A k \in 1..Len(foodRef'), i \in 1..Len(Creatures) :
                ( /\ foodRef'[k].id < nextFood
                  /\ Creatures'[i].body # Creatures[i].body )
                => ~DistLess(Creatures'[i].body[1],
                             Pt(foodRef'[k].x, foodRef'[k].y),
                             15 * Scale + foodRef'[k].radius)
      ]_vars

\* C7, the case: a consumable was consumed in the last tick while it lay
\* under the head of a second creature, which is alive.
C7_Witness ==
    \E j \in 1..Len(eats), i \in 1..Len(Creatures) :
        /\ eats[j].tick = tick
        /\ Creatures[i].ref # eats[j].ref
        /\ ~Creatures[i].isDead
        /\ DistLess(Creatures[i].body[1],
                    Pt(eats[j].food.x, eats[j].food.y),
                    15 * Scale + eats[j].food.radius)

\* a tick that starts in a world with exactly one creature, the living
\* player, and exactly one consumable, under its head, and in which the
\* player neither boosts nor dies
SoloTick ==
    /\ IsTick
    /\ Len(botsRef) = 0
    /\ ~playerRef[1].isDead
    /\ Len(foodRef) = 1
    /\ Pt(foodRef[1].x, foodRef[1].y) = playerRef[1].body[1]
    /\ ~playerRef'[1].isDead
    /\ ~playerRef'[1].isBoosting

RECURSIVE NonDecreasing(_)
NonDecreasing(seq) ==
    Len(seq) < 2 \/ (seq[1] <= seq[2] /\ NonDecreasing(Tail(seq)))

\* C9: in a session the values passed to setScore never decrease, the last
\* one is the displayed score and equals the player's score after every
\* step, every change of the player's score passes a value, and the
\* displayed score falls only to 0 and only in a construction.
C9_ScorePublished ==
    /\ [](playerRef # <<>> =>
            /\ scoreLog # <<>>
            /\ NonDecreasing(scoreLog)
            /\ scoreLog[Len(scoreLog)] = currentScore
            /\ currentScore = playerRef[1].score
            /\ scoreRef = currentScore)
    /\ [][ /\ currentScore' < currentScore =>
                (session' = session + 1 /\ currentScore' = 0)
           /\ ( /\ session' = session
                /\ playerRef # <<>>
                /\ playerRef'[1].score # playerRef[1].score )
              => Len(scoreLog') > Len(scoreLog)
         ]_vars

\* C9, the case: the player has consumed in the last tick and the session
\* has passed a second value to setScore.
C9_Witness ==
    /\ playerRef # <<>>
    /\ Len(scoreLog) >= 2
    /\ currentScore > 0
    /\ \E j \in 1..Len(eats) :
          eats[j].tick = tick /\ eats[j].ref = playerRef[1].ref

\* creatures i and j have both moved in the tick, so both were alive at
\* the lethal-collision stage, and their heads coincide
Coincident(i, j) ==
    /\ IsTick
    /\ i < j
    /\ Creatures'[i].body # Creatures[i].body
    /\ Creatures'[j].body # Creatures[j].body
    /\ Creatures'[i].body[1] = Creatures'[j].body[1]

\* C10, as claimed: of two creatures with coincident heads the one
\* evaluated second is killed.
C10_Original ==
    [][ \A i, j \in 1..Len(Creatures) :
          Coincident(i, j) => Creatures'[j].isDead ]_vars

\* C10, amended: of two creatures with coincident heads the one evaluated
\* first is killed, and the second is not killed by the first.
C10_Amended ==
    [][ \A i, j \in 1..Len(Creatures) :
          Coincident(i, j) =>
              /\ Creatures'[i].isDead
              /\ \A e \in 1..Len(kills') :
                    ~( /\ kills'[e].tick = tick'
                       /\ kills'[e].ref = Creatures[j].ref
                       /\ kills'[e].by = Creatures[i].ref )
      ]_vars

\* C10, the case: two creatures with coincident heads, the first killed in
\* the last tick by the second, the second alive.
C10_Witness ==
    \E i, j \in 1..Len(Creatures) :
        /\ i < j
        /\ Creatures[i].body[1] = Creatures[j].body[1]
        /\ Creatures[i].isDead
        /\ ~Creatures[j].isDead
        /\ \E e \in 1..Len(kills) :
              /\ kills[e].tick = tick
              /\ kills[e].ref = Creatures[i].ref
              /\ kills[e].by = Creatures[j].ref

\* C11, as claimed: a frame callback that ran while gameState was not
\* PLAYING went through no update and requested no further frame.
C11_Original ==
    lastFrame.gameState # "PLAYING" =>
        /\ lastFrame.update # "tick"
        /\ ~lastFrame.rescheduled

\* a session is running: the world is built and the player is alive
Running ==
    /\ gameState = "PLAYING"
    /\ effectState = "PLAYING"
    /\ playerRef # <<>>
    /\ ~playerRef[1].isDead

\* C12, as claimed: in a running session a step that is not a tick changes
\* no entity collection, nor the camera, nor the score.
C12_Original ==
    [][ (Running /\ ~IsTick) =>
          UNCHANGED <<playerRef, botsRef, foodRef, particlesRef, cameraRef,
                      scoreRef, currentScore>> ]_vars

\* C12, amended: in a running session a step that is not a tick changes
\* neither the player, the consumables, the particles, the camera nor the
\* score, and changes the autonomous creatures only by a respawn callback
\* that replaces the dead creature it was scheduled for, in its slot.
C12_Amended ==
    [][ (Running /\ ~IsTick) =>
          /\ UNCHANGED <<playerRef, foodRef, particlesRef, cameraRef,
                         scoreRef, currentScore>>
          /\ botsRef' # botsRef =>
                /\ IsRespawn
                /\ Len(botsRef') = Len(botsRef)
                /\ \E i \in 1..Len(botsRef) :
                      /\ botsRef[i].isDead
                      /\ botsRef[i].ref = Head(timers).ref
                      /\ ~botsRef'[i].isDead
                      /\ \A j \in 1..Len(botsRef) :
                            j # i => botsRef'[j] = botsRef[j]
      ]_vars

\* C12, the case: a running session in which the boost input has been
\* pressed and a respawn callback has put a new creature into its slot.
C12_Witness ==
    /\ Running
    /\ mouseRef.mouseDown
    /\ lastFire.session = session
    /\ lastFire.slot # 0
    /\ botsRef[lastFire.slot].ref = lastFire.newRef

\* a step of a frame callback
FrameStep == lastFrame' # lastFrame \/ tick' # tick

\* C13: a frame callback that runs when there is no player or the player is
\* dead changes no creature, consumable, particle, camera or score value,
\* publishes no score and no leaderboard, and processes no death.
C13_DeadPlayerTickIsNoOp ==
    [][ (FrameStep /\ (playerRef = <<>> \/ playerRef[1].isDead)) =>
          UNCHANGED <<playerRef, botsRef, foodRef, particlesRef, cameraRef,
                      scoreRef, currentScore, scoreLog, leaderboard, tick,
                      kills, eats, timers, finalScore, gameState>>
      ]_vars

\* C13, the case: a frame callback has run its update against a dead
\* player.
C13_Witness ==
    /\ lastFrame.update = "noop"
    /\ playerRef # <<>>
    /\ playerRef[1].isDead

\* C17, as claimed: death processing runs at most once per creature per
\* tick.
C17_Original ==
    \A i, j \in 1..Len(kills) :
        (i < j /\ kills[i].tick = kills[j].tick) =>
            kills[i].ref # kills[j].ref

\* ceil(n / 3)
Ceil3(n) == (n + 2) \div 3

\* the consumables created in the step: those in the world after it and
\* those consumed during it
Fresh ==
    { f \in { foodRef'[k] : k \in 1..Len(foodRef') }
            \cup { eats'[j].food : j \in { q \in 1..Len(eats') :
                                            eats'[q].tick = tick' } } :
      f.id >= nextFood }

\* the segments of the creature with address r among the creatures cs
BodyByRef(cs, r) ==
    cs[CHOOSE i \in 1..Len(cs) : cs[i].ref = r].body

\* the carcass consumables due for the death processings ks[e], ks[e+1],
\* ... of tick t
RECURSIVE CarcassDue(_, _, _, _)
CarcassDue(ks, e, t, cs) ==
    IF e > Len(ks) THEN 0
    ELSE (IF ks[e].tick = t THEN Ceil3(Len(BodyByRef(cs, ks[e].ref))) ELSE 0)
         + CarcassDue(ks, e + 1, t, cs)

\* C18: in a tick every death processing of a creature with n segments
\* adds ceil(n/3) consumables of value 20, one at each of its segments with
\* index 0, 3, 6, ...; no consumable leaves the world except by being
\* consumed; and the segments of a creature killed at the boundary are
\* those it had before the tick, those of a creature killed by a hit are
\* its new head followed by those it had.
C18_CarcassEveryThird ==
    [][ IsTick =>
          /\ Cardinality({ f \in Fresh : f.value = CARCASS_VALUE })
                = CarcassDue(kills', 1, tick', Creatures')
          /\ \A e \in 1..Len(kills') :
                kills'[e].tick = tick' =>
                    LET body == BodyByRef(Creatures', kills'[e].ref)
                    IN  \A j \in 0..(Ceil3(Len(body)) - 1) :
                            \E f \in Fresh :
                                /\ f.value = CARCASS_VALUE
                                /\ Pt(f.x, f.y) = body[3 * j + 1]
          /\ \A k \in 1..Len(foodRef) :
                \/ \E q \in 1..Len(foodRef') : foodRef'[q] = foodRef[k]
                \/ \E q \in 1..Len(eats') :
                      eats'[q].tick = tick' /\ eats'[q].food = foodRef[k]
          /\ \A i \in 1..Len(Creatures) :
                (~Creatures[i].isDead /\ Creatures'[i].isDead) =>
                    \/ Creatures'[i].body = Creatures[i].body
                    \/ Tail(Creatures'[i].body)
                          = SubSeq(Creatures[i].body, 1,
                                   Len(Creatures'[i].body) - 1)
      ]_vars

\* C18, the case: a creature of 10 segments has been killed in the last
\* tick and the world holds consumables of value 20 at its segments 0, 3,
\* 6 and 9.
C18_Witness ==
    \E e \in 1..Len(kills) :
        /\ kills[e].tick = tick
        /\ LET body == BodyByRef(Creatures, kills[e].ref)
           IN  /\ Len(body) = 10
               /\ \A j \in 0..3 :
                     \E k \in 1..Len(foodRef) :
                         /\ foodRef[k].value = CARCASS_VALUE
                         /\ Pt(foodRef[k].x, foodRef[k].y) = body[3 * j + 1]

\* both coordinates of p are within the arena
Inside(p) == Abs(p.x) <= Half /\ Abs(p.y) <= Half

\* C20, as claimed: every segment of every living creature and every
\* consumable has both coordinates within [-2000, 2000].
C20_Original ==
    /\ \A i \in 1..Len(Creatures) :
          ~Creatures[i].isDead =>
              \A k \in 1..Len(Creatures[i].body) :
                  Inside(Creatures[i].body[k])
    /\ \A k \in 1..Len(foodRef) : Inside(Pt(foodRef[k].x, foodRef[k].y))

\* the heading the player steers to
Desired == TargetAngle(mouseRef)

\* d is a shortest angular difference from heading a to heading t: it
\* leads from a to t modulo 2*PI and no difference that does is smaller
ShortestTo(d, a, t) ==
    /\ (a + d - t) % (2 * PI) = 0
    /\ Abs(d) <= PI

\* C14: in a tick the heading of the player changes by at most TURN_SPEED,
\* in the direction of a shortest angular difference to the desired
\* heading and by no more than that difference, and lands on the desired
\* heading modulo 2*PI when the difference is at most TURN_SPEED.
C14_BoundedTurn ==
    [][ IsTick =>
          LET a == playerRef[1].angle
              turn == playerRef'[1].angle - a
          IN  /\ Abs(turn) <= TURN_SPEED
              /\ \E d \in (-PI)..PI :
                    /\ ShortestTo(d, a, Desired)
                    /\ Sign(turn) = Sign(d)
                    /\ Abs(turn) <= Abs(d)
                    /\ Abs(d) <= TURN_SPEED =>
                          (playerRef'[1].angle - Desired) % (2 * PI) = 0
                    /\ Abs(d) > TURN_SPEED => Abs(turn) = TURN_SPEED
      ]_vars

\* C14, the case: the last tick has turned the player from a heading more
\* than half a turn away from 0 onto the desired heading modulo 2*PI.
C14_Witness ==
    /\ tick >= 1
    /\ lastFrame.update = "tick"
    /\ Abs(lastFrame.from) > PI
    /\ playerRef[1].angle # lastFrame.from
    /\ playerRef[1].angle # lastFrame.to
    /\ (playerRef[1].angle - lastFrame.to) % (2 * PI) = 0

\* C15, as claimed: for the heading a of the player and the desired
\* heading b, getShortestAngleDiff(a, b) lies in (-PI, PI], leads from a
\* to b modulo 2*PI, and is the negative of getShortestAngleDiff(b, a).
C15_Original ==
    playerRef # <<>> =>
        LET a == playerRef[1].angle
            b == Desired
            d == getShortestAngleDiff(a, b)
        IN  /\ -PI < d
            /\ d <= PI
            /\ (a + d - b) % (2 * PI) = 0
            /\ d = -getShortestAngleDiff(b, a)

\* C15, amended: getShortestAngleDiff(a, b) lies in [-PI, PI), leads from
\* a to b modulo 2*PI, is -PI exactly for antipodal headings, and is the
\* negative of getShortestAngleDiff(b, a) except for antipodal headings,
\* where both are -PI.
C15_Amended ==
    playerRef # <<>> =>
        LET a == playerRef[1].angle
            b == Desired
            d == getShortestAngleDiff(a, b)
            e == getShortestAngleDiff(b, a)
            antipodal == (b - a - PI) % (2 * PI) = 0
        IN  /\ -PI <= d
            /\ d < PI
            /\ (a + d - b) % (2 * PI) = 0
            /\ (d = -PI) <=> antipodal
            /\ antipodal => e = -PI
            /\ ~antipodal => e = -d

\* C15, the case: the last tick has steered from a heading antipodal to
\* the desired heading and more than a turn above it, for which the
\* difference is -PI, and has turned the player by -TURN_SPEED.
C15_Witness ==
    /\ tick >= 1
    /\ lastFrame.update = "tick"
    /\ lastFrame.to - lastFrame.from + PI < 0
    /\ getShortestAngleDiff(lastFrame.from, lastFrame.to) = -PI
    /\ playerRef[1].angle = lastFrame.from - TURN_SPEED

\* the position in allSnakes of the creature with name n
NameIndex(cs, n) == CHOOSE i \in 1..Len(cs) : cs[i].name = n

\* C16: a leaderboard published by a tick has at most 5 entries, one for
\* each of the first living creatures by score, names creatures that are
\* alive after the tick with their scores, is ordered by non-increasing
\* score, and keeps creatures of equal score in the order of allSnakes.
C16_Leaderboard ==
    [][ (IsTick /\ leaderboard' # leaderboard) =>
          LET lb == leaderboard'
              cs == Creatures'
          IN  /\ Len(lb) <= LEADERS
              /\ Len(lb) = Min(LEADERS, Len(Living(cs)))
              /\ \A k \in 1..Len(lb) :
                    \E i \in 1..Len(cs) :
                        /\ cs[i].name = lb[k].name
                        /\ cs[i].score = lb[k].score
                        /\ ~cs[i].isDead
              /\ \A k \in 1..(Len(lb) - 1) :
                    /\ lb[k].score >= lb[k + 1].score
                    /\ lb[k].score = lb[k + 1].score =>
                          NameIndex(cs, lb[k].name)
                              < NameIndex(cs, lb[k + 1].name)
      ]_vars

\* C16, the case: a leaderboard of 5 entries in a world of more than 5
\* living creatures, with two neighbours of equal score, published in a
\* tick that killed a creature whose score is above that of the last
\* entry.
C16_Witness ==
    /\ Len(leaderboard) = LEADERS
    /\ Len(Living(Creatures)) > LEADERS
    /\ \E k \in 1..(LEADERS - 1) :
          leaderboard[k].score = leaderboard[k + 1].score
    /\ \E e \in 1..Len(kills) :
          /\ kills[e].tick = tick
          /\ \E i \in 1..Len(Creatures) :
                /\ Creatures[i].ref = kills[e].ref
                /\ Creatures[i].score > leaderboard[LEADERS].score
    /\ \A k \in 1..LEADERS :
          ~Creatures[NameIndex(Creatures, leaderboard[k].name)].isDead

\* the length a creature must exceed to be given the boosting flag, in
\* tenths
BoostFloor(snake) ==
    IF snake.isBot THEN BOT_BOOST_MIN * 10 ELSE PLAYER_BOOST_MIN * 10

\* C19, as claimed: a creature whose boosting flag is set has a
\* targetLength above its floor, and the player has the flag only while
\* the boost input is held.
C19_Original ==
    \A i \in 1..Len(Creatures) :
        Creatures[i].isBoosting =>
            /\ Creatures[i].length > BoostFloor(Creatures[i])
            /\ ~Creatures[i].isBot => mouseRef.mouseDown

\* C19, amended: a creature whose boosting flag is set has a targetLength
\* of at least its floor (the shrink of 0.1 follows the gate); a tick
\* gives the player the flag exactly when the boost input is held and its
\* targetLength before the tick exceeds 15, and gives a living bot the
\* flag only when its targetLength before the tick exceeds 20; no other
\* step changes a flag of a creature that stays in the world.
C19_Amended ==
    /\ [](\A i \in 1..Len(Creatures) :
            Creatures[i].isBoosting =>
                Creatures[i].length >= BoostFloor(Creatures[i]))
    /\ [][ /\ IsTick =>
                /\ playerRef'[1].isBoosting
                      = (mouseRef.mouseDown
                         /\ playerRef[1].length > PLAYER_BOOST_MIN * 10)
                /\ \A i \in 1..Len(botsRef) :
                      (~botsRef[i].isDead /\ botsRef'[i].isBoosting) =>
                          botsRef[i].length > BOT_BOOST_MIN * 10
           /\ ~IsTick =>
                \A i \in 1..Len(Creatures') :
                    IF SameObject(i)
                    THEN Creatures'[i].isBoosting = Creatures[i].isBoosting
                    ELSE ~Creatures'[i].isBoosting
         ]_vars

\* C19, the case: after a tick the player has the boosting flag at a
\* targetLength of exactly 15 with the boost input released, and a bot has
\* it at exactly 20.
C19_Witness ==
    /\ tick >= 1
    /\ playerRef[1].isBoosting
    /\ playerRef[1].length = PLAYER_BOOST_MIN * 10
    /\ ~mouseRef.mouseDown
    /\ \E i \in 1..Len(botsRef) :
          /\ botsRef[i].isBoosting
          /\ botsRef[i].length = BOT_BOOST_MIN * 10

\* the distance of coordinate c from the nearer edge on its axis
EdgeGap(c) == Half - Abs(c)

\* coordinate c is within the margin of an edge
InMargin(c) == Abs(c) > Half - BORDER_MARGIN * Scale

\* the heading toward the interior along the x axis, along the y axis
InwardX(head) == IF head.x > 0 THEN PI ELSE 0
InwardY(head) == IF head.y > 0 THEN -(PI \div 2) ELSE PI \div 2

\* C21, as claimed: a tick leaves a living bot whose head was within the
\* margin with the heading toward the interior along the axis on which the
\* head was closer to the edge.
C21_Original ==
    [][ IsTick =>
          \A i \in 1..Len(botsRef) :
              LET head == botsRef[i].body[1]
                  after == botsRef'[i].angle
              IN  ( /\ ~botsRef[i].isDead
                    /\ (InMargin(head.x) \/ InMargin(head.y)) )
                  => IF ~InMargin(head.y) THEN after = InwardX(head)
                     ELSE IF ~InMargin(head.x) THEN after = InwardY(head)
                     ELSE IF EdgeGap(head.x) < EdgeGap(head.y)
                     THEN after = InwardX(head)
                     ELSE IF EdgeGap(head.y) < EdgeGap(head.x)
                     THEN after = InwardY(head)
                     ELSE after \in {InwardX(head), InwardY(head)}
      ]_vars

\* C22: every creature has at least INITIAL_LENGTH segments and at most
\* floor(length) of them, and a length of at least INITIAL_LENGTH; no
\* creature has an empty body.
C22_LengthBounds ==
    \A i \in 1..Len(Creatures) :
        /\ Creatures[i].body # <<>>
        /\ INITIAL_LENGTH <= Len(Creatures[i].body)
        /\ Len(Creatures[i].body) <= FloorLen(Creatures[i].length)
        /\ Creatures[i].length >= INITIAL_LENGTH * 10

\* C22, the case: the grown player has boosted for two ticks, from length
\* 16 to 15.8, and its body has been cut to 15 segments.
C22_Witness ==
    /\ tick >= 2
    /\ ~playerRef[1].isDead
    /\ playerRef[1].isBoosting
    /\ playerRef[1].length = 158
    /\ Len(playerRef[1].body) = 15

\* the bots have pairwise distinct ids
DistinctIds ==
    \A i, j \in 1..Len(botsRef) : i # j => botsRef[i].id # botsRef[j].id

\* a bot of the world is the object the callback at the head of the timer
\* queue was scheduled for
CallbackFinds == \E i \in 1..Len(botsRef) : botsRef[i].ref = Head(timers).ref

\* C23: once a world has been constructed there are exactly NumBots bots,
\* with pairwise distinct ids; a respawn callback replaces at most the one
\* slot that holds the object it was scheduled for, after which no slot
\* holds that object, and a callback that finds its object in no slot
\* changes no bot.
C23_BotsKept ==
    /\ [](session >= 1 => (Len(botsRef) = NumBots /\ DistinctIds))
    /\ [][ IsRespawn =>
             /\ ~CallbackFinds => botsRef' = botsRef
             /\ \A i \in 1..Len(botsRef) :
                   botsRef'[i] # botsRef[i] =>
                       botsRef[i].ref = Head(timers).ref
             /\ botsRef' # botsRef =>
                   \A i \in 1..Len(botsRef') :
                       botsRef'[i].ref # Head(timers).ref
         ]_vars

\* C23, the case: a bot was killed twice in one tick, its first callback
\* replaced it, and the last callback that ran was its second one and
\* found no slot to replace.
C23_Witness ==
    /\ lastFire.ref >= sessionBase
    /\ lastFire.session = session
    /\ lastFire.slot = 0
    /\ \E a, b \in 1..Len(kills) : /\ a < b
                                   /\ kills[a].ref = lastFire.ref
                                   /\ kills[b].ref = lastFire.ref
    /\ Len(botsRef) = NumBots
    /\ \A i \in 1..NumBots : ~botsRef[i].isDead

\* C24: a tick computes for every living bot a new head inside the arena,
\* and no bot is ever killed by the boundary check.
C24_BotsStayInside ==
    /\ [][ IsTick =>
             \A i \in 1..Len(botsRef) :
                 ( /\ ~botsRef[i].isDead
                   /\ Inside(botsRef[i].body[1]) )
                 => /\ botsRef'[i].ref = botsRef[i].ref
                    /\ Inside(movePoint(botsRef[i].body[1],
                                        botsRef'[i].angle,
                                        IF botsRef'[i].isBoosting
                                        THEN BOOST_SPEED ELSE BASE_SPEED))
         ]_vars
    /\ [](\A e \in 1..Len(kills) :
              kills[e].cause = "bounds" =>
                  (playerRef # <<>> /\ kills[e].ref = playerRef[1].ref))
    /\ [](\A i \in 1..Len(botsRef) : Inside(botsRef[i].body[1]))

\* C24, the case: a living bot that was within the margin of the right
\* border has been turned to the heading PI and has moved back at boost
\* speed.
C24_Witness ==
    /\ tick >= 2
    /\ \E i \in 1..Len(botsRef) :
          /\ ~botsRef[i].isDead
          /\ botsRef[i].isBoosting
          /\ botsRef[i].angle = PI
          /\ InMargin(botsRef[i].body[1].x + BOOST_SPEED * Scale)
          /\ ~InMargin(botsRef[i].body[1].x)

====
